---- MODULE Spec2Model ----
(***************************************************************************)
(* Model of crates/core/src/serialize/de.rs: the serde Deserializer that   *)
(* decodes a QuickJS value.  The adapter (Deserializer) holds one slot     *)
(* (DeserializerValue); deserialize_any classifies the slot and notifies   *)
(* the visitor; SeqAccess and MapAccess are the cursors the visitor drives.*)
(* The visitor (the target type) is the environment: it chooses which      *)
(* entry point each seed calls, which notification it accepts, and when    *)
(* it stops driving a cursor.                                              *)
(***************************************************************************)
EXTENDS Integers, Sequences, FiniteSets, TLC

VARIABLES
    slot,      \* Deserializer.value: DeserializerValue::Value(v) or ::MapKey(key)
    stack,     \* the live SeqAccess / MapAccess cursors, innermost last
    status,    \* "call": a seed is about to call an entry point; "visit": the
               \* visitor of the innermost cursor runs; "ok" / "err" / "panic"
    result,    \* what the outermost decode call returned
    last,      \* the last operation of the adapter and what it did
    wraps,     \* Option / newtype wrappers entered since the last step
    decodes,   \* outermost decode calls started on this adapter
    roots,     \* the slot at the start of each outermost decode call
    lens,      \* the runtime's current length of each array
    muts       \* changes of an array's length made so far

vars == <<slot, stack, status, result, last, wraps, decodes, roots, lens, muts>>

(***************************************************************************)
(* Bounds of the model.                                                    *)
(***************************************************************************)
MaxWrap == 2      \* nesting of Option<..> / newtype wrappers in a target type
MaxDecodes == 2   \* outermost decode calls on one adapter instance
MaxMutations == 1 \* changes of the length of an array during the decodes

(***************************************************************************)
(* Dynamic values.  A value is an index into Heap; a heap cell records     *)
(* what the runtime's predicates and extractors answer for it.  Strings    *)
(* are sequences of characters so that key normalization is computed.      *)
(***************************************************************************)
NoChars == << >>

Cell(classes, i, f, b, s, elems, props) ==
    [classes |-> classes, i |-> i, f |-> f, b |-> b, s |-> s,
     elems |-> elems, props |-> props]

IntCell(n) == Cell({"i32"}, n, "", FALSE, NoChars, << >>, << >>)
FloatCell(f) == Cell({"f64"}, 0, f, FALSE, NoChars, << >>, << >>)
ArrayCell(elems) == Cell({"array", "object"}, 0, "", FALSE, NoChars, elems, << >>)
ObjectCell(props) == Cell({"object"}, 0, "", FALSE, NoChars, << >>, props)
Prop(k, v) == [k |-> k, v |-> v]

K1337 == <<"1", "3", "3", "7">>
KHelloWold == <<"h", "e", "l", "l", "o", "_", "w", "o", "l", "d">>
KToto == <<"t", "o", "t", "o">>
KFooBar == <<"f", "o", "o", "B", "a", "r">>
KFooBarSnake == <<"f", "o", "o", "_", "b", "a", "r">>
KJoyeuxNoel == <<"J", "o", "y", "e", "u", "x", " ", "N", "o", "ë", "l">>
KJoyeuxNoelSnake == <<"j", "o", "y", "e", "u", "x", "_", "n", "o", "ë", "l">>
KKebabCase == <<"k", "e", "b", "a", "b", "-", "c", "a", "s", "e">>
KKebabCaseSnake == <<"k", "e", "b", "a", "b", "_", "c", "a", "s", "e">>

VNull == 12
VUndefined == 13
VFunction == 15
VSymbol == 16
VEmptyArray == 17
VArray3 == 18
VObj1337 == 19
VObjFive == 20
V1337 == 26

Heap ==
    << IntCell(1), IntCell(2), IntCell(3), IntCell(4), IntCell(5),      \* 1..5
       IntCell(42),                                                     \* 6
       FloatCell("NaN"), FloatCell("+Infinity"), FloatCell("-Infinity"),\* 7..9
       Cell({"i32", "f64"}, 7, "7.0", FALSE, NoChars, << >>, << >>),    \* 10
       Cell({"bool"}, 0, "", TRUE, NoChars, << >>, << >>),              \* 11
       Cell({"nullish"}, 0, "", FALSE, NoChars, << >>, << >>),          \* 12 null
       Cell({"nullish"}, 0, "", FALSE, NoChars, << >>, << >>),          \* 13 undefined
       Cell({"str"}, 0, "", FALSE, <<"h", "i">>, << >>, << >>),         \* 14
       Cell({}, 0, "", FALSE, NoChars, << >>, << >>),                   \* 15 function
       Cell({}, 0, "", FALSE, NoChars, << >>, << >>),                   \* 16 symbol
       ArrayCell(<< >>),                                                \* 17
       ArrayCell(<<1, 2, 3>>),                                          \* 18
       ObjectCell(<<Prop(K1337, 6)>>),                                  \* 19
       ObjectCell(<<Prop(KHelloWold, 1), Prop(KToto, 2), Prop(KFooBar, 3),
                    Prop(KJoyeuxNoel, 4), Prop(KKebabCase, 5)>>),       \* 20
       ObjectCell(<< >>),                                               \* 21
       ObjectCell(<<Prop(KFooBar, 3), Prop(KFooBarSnake, 1)>>),         \* 22
       ArrayCell(<<18, 19, 17>>),                                       \* 23
       ObjectCell(<<Prop(KToto, 18), Prop(KFooBar, 19)>>),              \* 24
       ArrayCell(<<7, 15, 12>>),                                        \* 25
       IntCell(1337) >>                                                 \* 26

Values == 1..Len(Heap)

\* The binding layer's predicates and extractors (js_binding::value::Value).
is_repr_as_i32(v) == "i32" \in Heap[v].classes
is_repr_as_f64(v) == "f64" \in Heap[v].classes
is_bool(v) == "bool" \in Heap[v].classes
is_null_or_undefined(v) == "nullish" \in Heap[v].classes
is_str(v) == "str" \in Heap[v].classes
is_array(v) == "array" \in Heap[v].classes
is_object(v) == "object" \in Heap[v].classes
as_i32(v) == Heap[v].i
as_f64(v) == Heap[v].f
as_bool(v) == Heap[v].b
as_str(v) == Heap[v].s
get_length(v) == lens[v]
\* An index past the end of the array, or a hole, reads as undefined.
get_indexed_property(v, i) ==
    IF i < lens[v] /\ i < Len(Heap[v].elems) THEN Heap[v].elems[i + 1]
    ELSE VUndefined

\* js_binding::properties::Properties: an enumerator over the own enumerable
\* keys of an object; pos keys have been yielded, the current key is the pos-th.
properties(v) == [obj |-> v, pos |-> 0]
HasNextKey(p) == p.pos < Len(Heap[p.obj].props)
next_key(p) == Heap[p.obj].props[p.pos + 1].k
next_value(p) == Heap[p.obj].props[p.pos].v

(***************************************************************************)
(* sanitize_key(key, Case::Snake): words are split at ' ', '-', '_' and at *)
(* a lower-to-upper transition, lowercased and joined by '_'.              *)
(***************************************************************************)
UpperToLower == [c \in {"B", "J", "N"} |->
                    CASE c = "B" -> "b" [] c = "J" -> "j" [] c = "N" -> "n"]
IsUpper(c) == c \in DOMAIN UpperToLower
IsDelimiter(c) == c \in {" ", "-", "_"}
IsDigit(c) == c \in {"1", "3", "7"}
IsLower(c) == ~IsUpper(c) /\ ~IsDelimiter(c) /\ ~IsDigit(c)
ToLower(c) == IF IsUpper(c) THEN UpperToLower[c] ELSE c

RECURSIVE SnakeFrom(_, _)
SnakeFrom(key, n) ==
    IF n > Len(key) THEN << >>
    ELSE LET c == key[n]
             boundary == n > 1 /\ IsUpper(c) /\ IsLower(key[n - 1])
             head == IF IsDelimiter(c) THEN <<"_">>
                     ELSE IF boundary THEN <<"_", ToLower(c)>>
                     ELSE <<ToLower(c)>>
         IN  head \o SnakeFrom(key, n + 1)

sanitize_key(key) == SnakeFrom(key, 1)

(***************************************************************************)
(* Notifications (the visitor's visit_* calls) and decoded results.        *)
(***************************************************************************)
Note(t, n, f, b, s) == [t |-> t, n |-> n, f |-> f, b |-> b, s |-> s]
NoNote == Note("-", 0, "", FALSE, NoChars)
Res(note, items) ==
    [t |-> note.t, n |-> note.n, f |-> note.f, b |-> note.b, s |-> note.s,
     items |-> items]
NoResult == Res(NoNote, << >>)

\* What a target type expects; "any" takes every notification (IgnoredAny, a
\* self-describing value type).  serde's f64 visitor also takes integers.
Expects == {"any", "i32", "f64", "bool", "unit", "str", "seq", "map"}
Accepts(expect, t) ==
    \/ expect = "any"
    \/ expect = t
    \/ expect = "f64" /\ t = "i32"

\* DeserializerValue (lines 15-18) and From<Value> (lines 24-29).
ValueSlot(v) == [kind |-> "Value", v |-> v, key |-> NoChars]
MapKeySlot(key) == [kind |-> "MapKey", v |-> 0, key |-> key]

\* An operation of the adapter: the slot it ran on, the notification it
\* issued, the error it raised, how it returned, and (for deserialize_any)
\* the notification its visitor expected.
Op(op, arg, note, err, ret, exp) ==
    [op |-> op, arg |-> arg, note |-> note, err |-> err, ret |-> ret, exp |-> exp]

\* A cursor: struct SeqAccess (lines 172-177) or struct MapAccess (lines
\* 142-145), with the visitor's side of the protocol: pend is the step whose
\* seed is still decoding, acc the results the visitor has collected, pkey
\* the key of the entry being decoded; fetched (indices read), keys (raw
\* keys enumerated), vals (raw keys whose value was read) and exhausted
\* record what the cursor has done.
\* Variant: the sequence cursor starts at index 1.
SeqFrameFromOne(seq, length) ==
    [kind |-> "seq", seq |-> seq, length |-> length, index |-> 1,
     properties |-> properties(seq), keyed |-> FALSE, pend |-> "none",
     acc |-> << >>, pkey |-> NoChars, fetched |-> << >>, keys |-> << >>,
     vals |-> << >>, exhausted |-> FALSE]
SeqFrame(seq, length) ==
    [kind |-> "seq", seq |-> seq, length |-> length, index |-> 0,
     properties |-> properties(seq), keyed |-> FALSE, pend |-> "none",
     acc |-> << >>, pkey |-> NoChars, fetched |-> << >>, keys |-> << >>,
     vals |-> << >>, exhausted |-> FALSE]
MapFrame(obj, props) ==
    [kind |-> "map", seq |-> obj, length |-> 0, index |-> 0,
     properties |-> props, keyed |-> FALSE, pend |-> "none",
     acc |-> << >>, pkey |-> NoChars, fetched |-> << >>, keys |-> << >>,
     vals |-> << >>, exhausted |-> FALSE]

Top == stack[Len(stack)]
SetTop(f) == [stack EXCEPT ![Len(stack)] = f]

Init ==
    /\ slot \in {ValueSlot(v) : v \in Values}
    /\ stack = << >>
    /\ status = "call"
    /\ result = NoResult
    /\ last = Op("from", slot, NoNote, "", "-", "-")
    /\ wraps = 0
    /\ decodes = 1
    /\ roots = <<slot>>
    /\ lens = [v \in Values |-> Len(Heap[v].elems)]
    /\ muts = 0

(***************************************************************************)
(* How a call of an entry point ends.                                      *)
(***************************************************************************)
\* The seed's deserialize returned Ok(r) to the step that called it (or to
\* the outermost caller): lines 157, 168, 189 and 210.
Deliver(stk, r) ==
    IF stk = << >>
    THEN /\ stack' = stk
         /\ status' = "ok"
         /\ result' = r
    ELSE LET n == Len(stk)
             f == stk[n]
             g == CASE f.pend = "elem" ->
                         [f EXCEPT !.acc = Append(@, r), !.pend = "none"]
                    [] f.pend = "key" ->
                         [f EXCEPT !.pkey = r.s, !.keyed = TRUE, !.pend = "none"]
                    [] OTHER ->
                         [f EXCEPT !.acc = Append(@, [k |-> f.pkey, v |-> r,
                                                      raw |-> f.keys[Len(f.keys)]]),
                                   !.keyed = FALSE, !.pend = "none"]
         IN  /\ stack' = [stk EXCEPT ![n] = g]
             /\ status' = "visit"
             /\ result' = result

\* Variant: the error is dropped and the caller goes on.
AbortIgnored(op, err) ==
    /\ last' = Op(op, slot, NoNote, err, "err", "-")
    /\ UNCHANGED <<slot, stack, status, result, wraps>>

\* An Err is returned through every enclosing step with `?`: the decode ends.
Abort(op, err) ==
    /\ status' = "err"
    /\ last' = Op(op, slot, NoNote, err, "err", "-")
    /\ UNCHANGED <<slot, stack, result, wraps>>

\* Variant: the entry point takes the value out of the slot and leaves
\* undefined there.
NotifyTakes(op, note, expect) ==
    /\ last' = Op(op, slot, note, "",
                  IF Accepts(expect, note.t) THEN "ok" ELSE "invalid_type", expect)
    /\ IF Accepts(expect, note.t)
       THEN Deliver(stack, Res(note, << >>))
       ELSE /\ status' = "err"
            /\ UNCHANGED <<stack, result>>
    /\ wraps' = 0
    /\ slot' = ValueSlot(VUndefined)

\* A scalar visit_* call: the visitor takes the notification or answers
\* invalid_type.
Notify(op, note, expect) ==
    /\ last' = Op(op, slot, note, "",
                  IF Accepts(expect, note.t) THEN "ok" ELSE "invalid_type", expect)
    /\ IF Accepts(expect, note.t)
       THEN Deliver(stack, Res(note, << >>))
       ELSE /\ status' = "err"
            /\ UNCHANGED <<stack, result>>
    /\ wraps' = 0
    /\ slot' = slot

\* Variant: the new cursor takes the place of the enclosing one.
HandReplace(op, note, expect, frame) ==
    /\ last' = Op(op, slot, note, "",
                  IF Accepts(expect, note.t) THEN "ok" ELSE "invalid_type", expect)
    /\ IF Accepts(expect, note.t)
       THEN /\ stack' = IF stack = << >> THEN <<frame>> ELSE SetTop(frame)
            /\ status' = "visit"
       ELSE /\ status' = "err"
            /\ stack' = stack
    /\ wraps' = 0
    /\ UNCHANGED <<slot, result>>

\* visit_seq / visit_map: the visitor receives the cursor and starts to drive it.
Hand(op, note, expect, frame) ==
    /\ last' = Op(op, slot, note, "",
                  IF Accepts(expect, note.t) THEN "ok" ELSE "invalid_type", expect)
    /\ IF Accepts(expect, note.t)
       THEN /\ stack' = Append(stack, frame)
            /\ status' = "visit"
       ELSE /\ status' = "err"
            /\ stack' = stack
    /\ wraps' = 0
    /\ UNCHANGED <<slot, result>>

\* A seed may call an entry point: inside a step, or as the outermost call
\* (T::deserialize(&mut deserializer), line 210), again after one returned.
InCall == status = "call"
Recall == status = "ok" /\ decodes < MaxDecodes
CanCall == InCall \/ Recall
Count ==
    /\ decodes' = IF Recall THEN decodes + 1 ELSE decodes
    /\ roots' = IF Recall THEN Append(roots, slot) ELSE roots
\* The adapter only reads the dynamic values it borrows.
Borrowed == UNCHANGED <<lens, muts>>

(***************************************************************************)
(* impl de::Deserializer for &mut Deserializer (lines 31-140).             *)
(***************************************************************************)
\* Variants of the chain: float-safety checked before integer-safety; only
\* null taken as unit; a value of no class decoded as unit.
AnyBranchFloatFirst(s) ==
    IF s.kind = "MapKey" THEN "key"
    ELSE IF is_repr_as_f64(s.v) THEN "f64"
    ELSE IF is_repr_as_i32(s.v) THEN "i32"
    ELSE IF is_bool(s.v) THEN "bool"
    ELSE IF is_null_or_undefined(s.v) THEN "unit"
    ELSE IF is_str(s.v) THEN "str"
    ELSE IF is_array(s.v) THEN "seq"
    ELSE IF is_object(s.v) THEN "map"
    ELSE "error"

AnyBranchNullOnly(s) ==
    IF s.kind = "MapKey" THEN "key"
    ELSE IF is_repr_as_i32(s.v) THEN "i32"
    ELSE IF is_repr_as_f64(s.v) THEN "f64"
    ELSE IF is_bool(s.v) THEN "bool"
    ELSE IF is_null_or_undefined(s.v) /\ s.v # VUndefined THEN "unit"
    ELSE IF is_str(s.v) THEN "str"
    ELSE IF is_array(s.v) THEN "seq"
    ELSE IF is_object(s.v) THEN "map"
    ELSE "error"

AnyBranchDefaultUnit(s) ==
    IF s.kind = "MapKey" THEN "key"
    ELSE IF is_repr_as_i32(s.v) THEN "i32"
    ELSE IF is_repr_as_f64(s.v) THEN "f64"
    ELSE IF is_bool(s.v) THEN "bool"
    ELSE IF is_str(s.v) THEN "str"
    ELSE IF is_array(s.v) THEN "seq"
    ELSE IF is_object(s.v) THEN "map"
    ELSE "unit"

\* The ordered chain of checks of deserialize_any: the first that matches.
AnyBranch(s) ==
    IF s.kind = "MapKey" THEN "key"
    ELSE IF is_repr_as_i32(s.v) THEN "i32"
    ELSE IF is_repr_as_f64(s.v) THEN "f64"
    ELSE IF is_bool(s.v) THEN "bool"
    ELSE IF is_null_or_undefined(s.v) THEN "unit"
    ELSE IF is_str(s.v) THEN "str"
    ELSE IF is_array(s.v) THEN "seq"
    ELSE IF is_object(s.v) THEN "map"
    ELSE "error"

\* Variant: a non-finite float replaced by a finite sentinel.
F64ArgClamped(value) ==
    Note("f64", 0, IF as_f64(value) \in {"NaN", "+Infinity", "-Infinity"}
                   THEN "0.0" ELSE as_f64(value), FALSE, NoChars)

\* The arguments of the scalar notifications.
KeyArg(s) == Note("str", 0, "", FALSE, s.key)
I32Arg(value) == Note("i32", as_i32(value), "", FALSE, NoChars)
F64Arg(value) == Note("f64", 0, as_f64(value), FALSE, NoChars)
BoolArg(value) == Note("bool", 0, "", as_bool(value), NoChars)
UnitArg == Note("unit", 0, "", FALSE, NoChars)
StrArg(value) == Note("str", 0, "", FALSE, as_str(value))
SeqArg == Note("seq", 0, "", FALSE, NoChars)
MapArg == Note("map", 0, "", FALSE, NoChars)

\* Variant: the captured length is one more than the array's length.
SeqLengthPlusOne(value) == get_length(value) + 1

\* let length = val.inner() as u32 (array lengths here are far below 2^32)
SeqLength(value) == get_length(value)

DeserializeAny(expect) ==
    /\ CanCall
    /\ Count
    /\ Borrowed
    /\ LET op == "deserialize_any"
           value == slot.v
           b == AnyBranch(slot)
       IN  CASE b = "key" -> Notify(op, KeyArg(slot), expect)
             [] b = "i32" -> Notify(op, I32Arg(value), expect)
             [] b = "f64" -> \/ Notify(op, F64Arg(value), expect)
                             \/ Abort(op, "as_f64")
             [] b = "bool" -> \/ Notify(op, BoolArg(value), expect)
                              \/ Abort(op, "as_bool")
             [] b = "unit" -> Notify(op, UnitArg, expect)
             [] b = "str" -> \/ Notify(op, StrArg(value), expect)
                             \/ Abort(op, "as_str")
             [] b = "seq" -> \/ Hand(op, SeqArg, expect, SeqFrame(value, SeqLength(value)))
                             \/ Abort(op, "get_property")
             [] b = "map" -> \/ Hand(op, MapArg, expect, MapFrame(value, properties(value)))
                             \/ Abort(op, "properties")
             [] OTHER -> Abort(op, "shape")

\* Variant: every dynamic value is answered as present.
OptionBranchAlwaysSome(s) ==
    IF s.kind = "MapKey" THEN "unreachable" ELSE "some"

\* The match of deserialize_option.
OptionBranch(s) ==
    IF s.kind = "MapKey" THEN "unreachable"
    ELSE IF is_null_or_undefined(s.v) THEN "none"
    ELSE "some"

Panic(op, err) ==
    /\ status' = "panic"
    /\ last' = Op(op, slot, NoNote, err, "panic", "-")
    /\ UNCHANGED <<slot, stack, result, wraps>>

\* visit_some(self) / visit_newtype_struct(self): the visitor calls the inner
\* type's deserialize on the same adapter.
Reenter(op, note) ==
    /\ status' = "call"
    /\ wraps' = wraps + 1
    /\ last' = Op(op, slot, note, "", "ok", "-")
    /\ UNCHANGED <<slot, stack, result>>

DeserializeOption ==
    /\ CanCall
    /\ wraps < MaxWrap
    /\ Count
    /\ Borrowed
    /\ LET op == "deserialize_option"
           b == OptionBranch(slot)
       IN  CASE b = "unreachable" -> Panic(op, "unreachable")
             [] b = "none" -> Notify(op, Note("none", 0, "", FALSE, NoChars), "any")
             [] OTHER -> Reenter(op, Note("some", 0, "", FALSE, NoChars))

DeserializeNewtypeStruct ==
    /\ CanCall
    /\ wraps < MaxWrap
    /\ Count
    /\ Borrowed
    /\ Reenter("deserialize_newtype_struct", Note("newtype", 0, "", FALSE, NoChars))

\* Variant: the enum entry point answers unit.
DeserializeEnumUnit ==
    /\ CanCall
    /\ Count
    /\ Borrowed
    /\ Notify("deserialize_enum", UnitArg, "any")

DeserializeEnum ==
    /\ CanCall
    /\ Count
    /\ Borrowed
    /\ Panic("deserialize_enum", "unimplemented")

(***************************************************************************)
(* impl de::MapAccess for MapAccess (lines 147-170).                       *)
(***************************************************************************)
Advance(p) == [p EXCEPT !.pos = @ + 1]
\* Variants: a numeric-looking key stored as the number it spells; the raw
\* key stored without normalization; the value read from the first entry.
KeySlotAsNumber(key) ==
    IF key = K1337 THEN ValueSlot(V1337) ELSE MapKeySlot(sanitize_key(key))
KeySlotRaw(key) == MapKeySlot(key)
EntrySlotFirst(p) == ValueSlot(Heap[p.obj].props[1].v)

\* The slot the key step stores (lines 155-156) and the value step (167).
KeySlot(key) == MapKeySlot(sanitize_key(key))
EntrySlot(p) == ValueSlot(next_value(p))

InVisit(kind) == status = "visit" /\ stack # << >> /\ Top.kind = kind

\* Variant: the key step also reads the value of the key it yields.
NextKeySeedEager ==
    /\ InVisit("map")
    /\ LET op == "next_key_seed"
           f == Top
       IN  \/ Abort(op, "next_key")
           \/ /\ HasNextKey(f.properties)
              /\ LET key == next_key(f.properties)
                     g == [f EXCEPT !.properties = Advance(@), !.keys = Append(@, key),
                                    !.vals = Append(@, key)]
                 IN  /\ slot' = KeySlot(key)
                     /\ stack' = SetTop([g EXCEPT !.pend = "key"])
                     /\ status' = "call"
                     /\ last' = Op(op, slot, NoNote, "", "present", "-")
                     /\ UNCHANGED <<result, wraps>>
           \/ /\ ~HasNextKey(f.properties)
              /\ stack' = SetTop([f EXCEPT !.exhausted = TRUE])
              /\ last' = Op(op, slot, NoNote, "", "exhausted", "-")
              /\ UNCHANGED <<slot, status, result, wraps>>
    /\ UNCHANGED <<decodes, roots>>
    /\ Borrowed

\* Variant: a key whose normalized form was presented before ends the mapping.
NextKeySeedDedup ==
    /\ InVisit("map")
    /\ LET op == "next_key_seed"
           f == Top
           seen == {sanitize_key(f.keys[i]) : i \in 1..Len(f.keys)}
           more == /\ HasNextKey(f.properties)
                   /\ sanitize_key(next_key(f.properties)) \notin seen
       IN  \/ Abort(op, "next_key")
           \/ /\ more
              /\ LET key == next_key(f.properties)
                     g == [f EXCEPT !.properties = Advance(@), !.keys = Append(@, key)]
                 IN  /\ slot' = KeySlot(key)
                     /\ stack' = SetTop([g EXCEPT !.pend = "key"])
                     /\ status' = "call"
                     /\ last' = Op(op, slot, NoNote, "", "present", "-")
                     /\ UNCHANGED <<result, wraps>>
           \/ /\ ~more
              /\ stack' = SetTop([f EXCEPT !.exhausted = TRUE])
              /\ last' = Op(op, slot, NoNote, "", "exhausted", "-")
              /\ UNCHANGED <<slot, status, result, wraps>>
    /\ UNCHANGED <<decodes, roots>>
    /\ Borrowed

NextKeySeed ==
    /\ InVisit("map")
    /\ LET op == "next_key_seed"
           f == Top
       IN  \/ Abort(op, "next_key")
           \/ /\ HasNextKey(f.properties)
              /\ LET key == next_key(f.properties)
                     g == [f EXCEPT !.properties = Advance(@), !.keys = Append(@, key)]
                 IN  \/ /\ status' = "err"
                        /\ stack' = SetTop(g)
                        /\ last' = Op(op, slot, NoNote, "sanitize_key", "err", "-")
                        /\ UNCHANGED <<slot, result, wraps>>
                     \/ /\ slot' = KeySlot(key)
                        /\ stack' = SetTop([g EXCEPT !.pend = "key"])
                        /\ status' = "call"
                        /\ last' = Op(op, slot, NoNote, "", "present", "-")
                        /\ UNCHANGED <<result, wraps>>
           \/ /\ ~HasNextKey(f.properties)
              /\ stack' = SetTop([f EXCEPT !.exhausted = TRUE])
              /\ last' = Op(op, slot, NoNote, "", "exhausted", "-")
              /\ UNCHANGED <<slot, status, result, wraps>>
    /\ UNCHANGED <<decodes, roots>>
    /\ Borrowed

NextValueSeed ==
    /\ InVisit("map")
    /\ Top.keyed
    /\ LET op == "next_value_seed"
           f == Top
       IN  \/ Abort(op, "next_value")
           \/ /\ slot' = EntrySlot(f.properties)
              /\ stack' = SetTop([f EXCEPT !.pend = "value",
                                            !.vals = Append(@, f.keys[Len(f.keys)])])
              /\ status' = "call"
              /\ last' = Op(op, slot, NoNote, "", "present", "-")
              /\ UNCHANGED <<result, wraps>>
    /\ UNCHANGED <<decodes, roots>>
    /\ Borrowed

(***************************************************************************)
(* impl de::SeqAccess for SeqAccess (lines 179-194).                       *)
(***************************************************************************)
\* Variant: the index advanced by two.
NextIndexSkip(index) == index + 2

\* Variant: the bound of the cursor is inclusive.
HasElementInclusive(index, length) == index <= length

HasElement(index, length) == index < length
\* Variant: the element is read at the index after the current one.
ElementSlotNext(seq, index) == ValueSlot(get_indexed_property(seq, index + 1))
ElementSlot(seq, index) == ValueSlot(get_indexed_property(seq, index))
\* self.index += 1 (index < length <= u32::MAX: no overflow)
NextIndex(index) == index + 1

NextElementSeed ==
    /\ InVisit("seq")
    /\ LET op == "next_element_seed"
           f == Top
       IN  IF HasElement(f.index, f.length)
           THEN LET g == [f EXCEPT !.fetched = Append(@, f.index)]
                IN  \/ /\ status' = "err"
                       /\ stack' = SetTop(g)
                       /\ last' = Op(op, slot, NoNote, "get_indexed_property", "err", "-")
                       /\ UNCHANGED <<slot, result, wraps>>
                    \/ /\ slot' = ElementSlot(f.seq, f.index)
                       /\ stack' = SetTop([g EXCEPT !.index = NextIndex(@), !.pend = "elem"])
                       /\ status' = "call"
                       /\ last' = Op(op, slot, NoNote, "", "present", "-")
                       /\ UNCHANGED <<result, wraps>>
           ELSE /\ stack' = SetTop([f EXCEPT !.exhausted = TRUE])
                /\ last' = Op(op, slot, NoNote, "", "exhausted", "-")
                /\ UNCHANGED <<slot, status, result, wraps>>
    /\ UNCHANGED <<decodes, roots>>
    /\ Borrowed

\* The visitor's visit_seq / visit_map returns Ok with what it collected;
\* it may stop before the cursor is exhausted.
VisitorReturn ==
    /\ status = "visit"
    /\ stack # << >>
    /\ LET f == Top
       IN  Deliver(SubSeq(stack, 1, Len(stack) - 1),
                   Res(IF f.kind = "seq" THEN SeqArg ELSE MapArg, f.acc))
    /\ last' = Op("visit_return", slot, NoNote, "", "ok", "-")
    /\ UNCHANGED <<slot, wraps, decodes, roots>>
    /\ Borrowed

\* Code run by the visitor between two steps changes the length of an array
\* a sequence cursor was created for.
ArrayLengthChanges ==
    /\ status = "visit"
    /\ muts < MaxMutations
    /\ \E i \in 1..Len(stack) :
           /\ stack[i].kind = "seq"
           /\ \E n \in 0..(Len(Heap[stack[i].seq].elems) + 1) :
                  /\ n # lens[stack[i].seq]
                  /\ lens' = [lens EXCEPT ![stack[i].seq] = n]
    /\ muts' = muts + 1
    /\ UNCHANGED <<slot, stack, status, result, last, wraps, decodes, roots>>

Next ==
    \/ \E expect \in Expects : DeserializeAny(expect)
    \/ DeserializeOption
    \/ DeserializeNewtypeStruct
    \/ DeserializeEnum
    \/ NextKeySeed
    \/ NextValueSeed
    \/ NextElementSeed
    \/ VisitorReturn
    \/ ArrayLengthChanges

Spec == Init /\ [][Next]_vars

\* A visitor that drives its cursor until a step reports "exhausted" (serde's
\* `while let Some(..) = access.next_element()? / next_entry()?` loops) and
\* only then returns.
VisitorReturnExhausted ==
    /\ status = "visit"
    /\ stack # << >>
    /\ Top.exhausted
    /\ VisitorReturn

NextDrive ==
    \/ \E expect \in Expects : DeserializeAny(expect)
    \/ DeserializeOption
    \/ DeserializeNewtypeStruct
    \/ DeserializeEnum
    \/ NextKeySeed
    \/ NextValueSeed
    \/ NextElementSeed
    \/ VisitorReturnExhausted
    \/ ArrayLengthChanges

\* The caller keeps running: a call that can be made is made.
DriveSpec == Init /\ [][NextDrive]_vars /\ WF_vars(NextDrive)

(***************************************************************************)
(* Properties.                                                             *)
(***************************************************************************)
Frames == {stack[i] : i \in 1..Len(stack)}
ClassesOf(s) == Heap[s.v].classes
ExtractionErrs == {"as_f64", "as_bool", "as_str", "get_property", "properties"}

\* C1: every call of deserialize_any issues exactly one notification or one
\* error, chosen by the first match in the order: map key -> string,
\* integer-safe -> i32, float-safe -> f64, boolean -> bool, null/undefined ->
\* unit, string -> str, array -> seq, object -> map, otherwise -> error; a
\* value that is both integer-safe and float-safe is notified as an integer.
C1_FirstMatchOrder ==
    last.op = "deserialize_any" =>
        LET s == last.arg
            t == last.note.t
            e == last.err
            c == ClassesOf(s)
            failed(x) == e = x /\ last.note = NoNote
        IN  /\ (last.note # NoNote) # (e # "")
            /\ t \in {"-", "i32", "f64", "bool", "unit", "str", "seq", "map"}
            /\ e \in ExtractionErrs \cup {"", "shape"}
            /\ s.kind = "MapKey" => last.note = Note("str", 0, "", FALSE, s.key)
            /\ s.kind = "Value" =>
                /\ "i32" \in c => last.note = Note("i32", Heap[s.v].i, "", FALSE, NoChars)
                /\ c \cap {"i32"} = {} /\ "f64" \in c => t = "f64" \/ failed("as_f64")
                /\ c \cap {"i32", "f64"} = {} /\ "bool" \in c =>
                       t = "bool" \/ failed("as_bool")
                /\ c \cap {"i32", "f64", "bool"} = {} /\ "nullish" \in c => t = "unit"
                /\ c \cap {"i32", "f64", "bool", "nullish"} = {} /\ "str" \in c =>
                       t = "str" \/ failed("as_str")
                /\ c \cap {"i32", "f64", "bool", "nullish", "str"} = {} /\ "array" \in c =>
                       t = "seq" \/ failed("get_property")
                /\ c \cap {"i32", "f64", "bool", "nullish", "str", "array"} = {}
                     /\ "object" \in c => t = "map" \/ failed("properties")
                /\ c = {} => failed("shape")

\* A value that is integer-safe and float-safe was notified as an integer.
C1_Witness ==
    /\ last.op = "deserialize_any"
    /\ last.arg.kind = "Value"
    /\ {"i32", "f64"} \subseteq ClassesOf(last.arg)
    /\ last.note.t = "i32"
    /\ status = "ok"

KeyCall == status = "call" /\ stack # << >> /\ Top.pend = "key"

\* C2: each key step notifies the key as a string, also for a
\* numeric-looking property name such as "1337": a visitor expecting a string
\* receives the key and the value is collected under that string key, a
\* visitor expecting a number gets a decode error.
C2_KeysAreStrings ==
    /\ [](\A f \in Frames : f.kind = "map" /\ f.seq = VObj1337 =>
              \A i \in 1..Len(f.acc) :
                  /\ f.acc[i].k = K1337
                  /\ f.acc[i].v.t = "i32"
                  /\ f.acc[i].v.n = 42)
    /\ [][KeyCall /\ last'.op = "deserialize_any" =>
              /\ slot.kind = "MapKey"
              /\ last'.note = Note("str", 0, "", FALSE, slot.key)
              /\ last'.exp \in {"str", "any"} =>
                     /\ status' = "visit"
                     /\ Top'.keyed
                     /\ Top'.pkey = sanitize_key(Top.keys[Len(Top.keys)])
              /\ last'.exp \notin {"str", "any"} => status' = "err"]_vars

\* The key "1337" was notified as a string to a visitor expecting an i32.
C2_Witness ==
    /\ status = "err"
    /\ last.op = "deserialize_any"
    /\ last.arg = MapKeySlot(K1337)
    /\ last.exp = "i32"
    /\ last.note.t = "str"
    /\ last.ret = "invalid_type"

\* The property of an object stored under a raw key.
Lookup(obj, raw) ==
    LET ps == Heap[obj].props
    IN  ps[CHOOSE i \in 1..Len(ps) : ps[i].k = raw].v

\* The decoded result r is the decoding of the value v.
DecodingOf(v, r) ==
    /\ is_repr_as_i32(v) => r.t = "i32" /\ r.n = as_i32(v)
    /\ is_array(v) => r.t = "seq"
    /\ ~is_array(v) /\ is_object(v) => r.t = "map"

FiveKeys ==
    { <<KHelloWold, 1>>, <<KToto, 2>>, <<KFooBarSnake, 3>>,
      <<KJoyeuxNoelSnake, 4>>, <<KKebabCaseSnake, 5>> }

\* C3: every entry a visitor collects from an object is normalize(k) -> v
\* for a raw key k the object enumerates, v being the decoding of the value
\* stored under k; the object of the test yields only hello_wold->1, toto->2,
\* foo_bar->3, joyeux_noël->4, kebab_case->5.
C3_NormalizedKeyRawValue ==
    \A f \in Frames : f.kind = "map" =>
        \A i \in 1..Len(f.acc) :
            LET e == f.acc[i]
            IN  /\ \E j \in 1..Len(Heap[f.seq].props) : Heap[f.seq].props[j].k = e.raw
                /\ e.k = sanitize_key(e.raw)
                /\ DecodingOf(Lookup(f.seq, e.raw), e.v)
                /\ f.seq = VObjFive => <<e.k, e.v.n>> \in FiveKeys

\* All five entries of the test's object were collected.
C3_Witness ==
    /\ status = "visit"
    /\ Top.seq = VObjFive
    /\ Top.exhausted
    /\ {<<Top.acc[i].k, Top.acc[i].v.n>> : i \in 1..Len(Top.acc)} = FiveKeys

Upto(n) == [i \in 1..n |-> i - 1]

\* C4: a sequence cursor over an array of captured length n fetches the
\* indices 0, 1, .., in ascending order, none skipped or repeated and none
\* at or past n; once it has answered 'exhausted' it has made exactly n
\* 'present' steps (fetches 0..n-1), and for n = 0 no element was fetched.
C4_AscendingIndices ==
    \A f \in Frames : f.kind = "seq" =>
        /\ muts = 0 => f.length = Len(Heap[f.seq].elems)
        /\ f.fetched = Upto(Len(f.fetched))
        /\ Len(f.fetched) <= f.length
        /\ Len(f.acc) + (IF f.pend = "elem" THEN 1 ELSE 0) = f.index
        /\ f.index <= Len(f.fetched)
        /\ f.exhausted =>
               /\ f.index = f.length
               /\ f.fetched = Upto(f.length)
               /\ f.length = 0 => f.fetched = << >> /\ f.acc = << >>

\* The array of length 3 was driven to exhaustion: three elements collected.
C4_Witness ==
    /\ status = "visit"
    /\ Top.kind = "seq"
    /\ Top.seq = VArray3
    /\ Top.exhausted
    /\ Len(Top.acc) = 3
    /\ Top.fetched = <<0, 1, 2>>

Nullish(s) == s.kind = "Value" /\ s.v \in {VNull, VUndefined}

\* C5: for null and for undefined alike, deserialize_any notifies unit and
\* deserialize_option notifies none, the slot is left as it was, and a
\* visitor expecting unit receives the unit result: what the adapter does
\* does not depend on which of the two the value is.
C5_NullUndefinedAlike ==
    /\ last.op = "deserialize_any" /\ Nullish(last.arg) =>
           /\ last.note = Note("unit", 0, "", FALSE, NoChars)
           /\ last.err = ""
           /\ slot = last.arg
           /\ last.exp \in {"unit", "any"} => status \in {"ok", "visit"}
           /\ last.exp \in {"unit", "any"} /\ stack = << >> =>
                  result = Res(Note("unit", 0, "", FALSE, NoChars), << >>)
    /\ last.op = "deserialize_option" /\ Nullish(last.arg) =>
           /\ last.note = Note("none", 0, "", FALSE, NoChars)
           /\ last.err = ""
           /\ slot = last.arg
           /\ status \in {"ok", "visit"}
           /\ stack = << >> => result = Res(Note("none", 0, "", FALSE, NoChars), << >>)

\* undefined was decoded into the unit type.
C5_Witness ==
    /\ last.op = "deserialize_any"
    /\ last.arg = ValueSlot(VUndefined)
    /\ last.exp = "unit"
    /\ status = "ok"
    /\ result.t = "unit"

\* C6: the f64 notification carries the value's floating-point
\* interpretation unchanged: NaN stays NaN, +Infinity and -Infinity keep
\* their sign, and the decoded result is that same float.
C6_FloatUnchanged ==
    last.op = "deserialize_any" /\ last.note.t = "f64" =>
        /\ last.note.f = Heap[last.arg.v].f
        /\ last.note = Note("f64", 0, Heap[last.arg.v].f, FALSE, NoChars)
        /\ last.arg.v = 7 => last.note.f = "NaN"
        /\ last.arg.v = 8 => last.note.f = "+Infinity"
        /\ last.arg.v = 9 => last.note.f = "-Infinity"
        /\ status = "ok" => result.t = "f64" /\ result.f = last.note.f

\* NaN was decoded into an f64.
C6_Witness ==
    /\ last.op = "deserialize_any"
    /\ last.exp = "f64"
    /\ status = "ok"
    /\ result.t = "f64"
    /\ result.f = "NaN"

\* C7: deserialize_any on a value of none of the representation classes (a
\* function, a symbol) issues no notification and fails with the
\* shape-mismatch error; it is not decoded as unit, string or a mapping.
C7_NoClassIsAnError ==
    last.op = "deserialize_any" /\ last.arg.kind = "Value"
      /\ (last.arg.v \in {VFunction, VSymbol} \/ ClassesOf(last.arg) = {}) =>
        /\ last.note = NoNote
        /\ last.err = "shape"
        /\ status = "err"
        /\ slot = last.arg

\* A function inside an array failed the decode of the array.
C7_Witness ==
    /\ status = "err"
    /\ last.op = "deserialize_any"
    /\ last.arg = ValueSlot(VFunction)
    /\ last.err = "shape"
    /\ stack # << >>

\* C8: deserialize_enum fails at once whatever the slot holds: no
\* notification, the slot, the cursors and the result untouched, and the
\* call never returns a decoded value (it ends in the unimplemented!() panic).
C8_EnumAlwaysFails ==
    /\ [](last.op = "deserialize_enum" =>
              /\ status = "panic"
              /\ last.note = NoNote
              /\ last.err = "unimplemented"
              /\ slot = last.arg)
    /\ [][last'.op = "deserialize_enum" /\ last' # last =>
              /\ status' \notin {"ok", "visit", "call"}
              /\ UNCHANGED <<slot, stack, result>>]_vars
    /\ [][status # "panic"]_vars

\* The enum entry point was called from a key step, the slot holding a map key.
C8_Witness ==
    /\ last.op = "deserialize_enum"
    /\ last.arg.kind = "MapKey"
    /\ status = "panic"

FaultErrs ==
    ExtractionErrs \cup {"next_key", "sanitize_key", "next_value", "get_indexed_property"}

\* C9: a failure of an extraction, of the array length, of the enumerator,
\* of next-key, next-value, an indexed fetch or key normalization is returned
\* as an error by the step it occurs in: that step issues no notification and
\* stores nothing in the slot, the failing element or entry is not skipped or
\* collected, nothing runs after it, and the outermost call has no result.
C9_FailuresAbort ==
    /\ [](last.err \in FaultErrs =>
              /\ status = "err"
              /\ last.note = NoNote
              /\ last.ret = "err"
              /\ slot = last.arg
              /\ decodes = 1 => result = NoResult
              /\ last.err = "get_indexed_property" =>
                     /\ Top.kind = "seq"
                     /\ Top.index = Top.fetched[Len(Top.fetched)]
                     /\ Len(Top.acc) = Top.index
                     /\ Top.pend = "none"
              /\ last.err \in {"next_key", "sanitize_key", "next_value"} =>
                     /\ Top.kind = "map"
                     /\ Top.pend = "none"
                     /\ \A i \in 1..Len(Top.acc) :
                            last.err # "next_key" => Top.acc[i].raw # Top.keys[Len(Top.keys)])
    /\ [][status # "err"]_vars

\* The fetch of the second element of an array failed after the first was
\* decoded.
C9_Witness ==
    /\ status = "err"
    /\ last.err = "get_indexed_property"
    /\ Top.index = 1
    /\ Len(Top.acc) = 1

\* The position of a raw key in the enumeration of an object.
Pos(obj, raw) ==
    CHOOSE i \in 1..Len(Heap[obj].props) : Heap[obj].props[i].k = raw

\* C10: a mapping cursor presents the keys in the order the enumerator
\* yields them: the i-th key step presents the i-th enumerated key
\* (normalized), the value step that follows presents the value of that same
\* key, a value step only follows a key step, and the entries are collected
\* in enumeration order.
C10_EnumerationOrder ==
    \A f \in Frames : f.kind = "map" =>
        LET ps == Heap[f.seq].props
            n == Len(f.keys)
        IN  /\ n <= Len(ps)
            /\ \A i \in 1..n : f.keys[i] = ps[i].k
            /\ f.properties = [obj |-> f.seq, pos |-> n]
            /\ \A i, j \in 1..Len(f.acc) :
                   i < j => Pos(f.seq, f.acc[i].raw) < Pos(f.seq, f.acc[j].raw)
            /\ f = Top /\ status = "call" /\ f.pend = "key" =>
                   slot = MapKeySlot(sanitize_key(ps[n].k))
            /\ f = Top /\ status = "call" /\ f.pend = "value" =>
                   /\ f.keyed
                   /\ f.pkey = sanitize_key(ps[n].k)
                   /\ slot = ValueSlot(ps[n].v)
            /\ f.exhausted /\ status # "err" => n = Len(ps)

\* The value step of the third entry of the test's object is in flight, the
\* first two entries collected.
C10_Witness ==
    /\ status = "call"
    /\ stack # << >>
    /\ Top.kind = "map"
    /\ Top.seq = VObjFive
    /\ Top.pend = "value"
    /\ Len(Top.acc) = 2
    /\ Len(Top.keys) = 3
    /\ slot = ValueSlot(3)

\* The frames two successive states have in common.
Kept == 1..(IF Len(stack) < Len(stack') THEN Len(stack) ELSE Len(stack'))

\* C11: mapping decode is lazy: a key step advances the enumerator by at
\* most one key and reads no value; the value of an entry is read only by a
\* value step, once per collected entry; a visitor that stops after a key
\* step gets its mapping back without a value read and without an error.
C11_LazyValues ==
    /\ [](\A f \in Frames : f.kind = "map" =>
              /\ Len(f.vals) <= Len(f.keys)
              /\ Len(f.vals) = Len(f.acc) + (IF f.pend = "value" THEN 1 ELSE 0)
              /\ \A i \in 1..Len(f.acc) : f.vals[i] = f.acc[i].raw)
    /\ [][InVisit("map") /\ last'.op = "next_key_seed" =>
              /\ Len(stack') = Len(stack)
              /\ Top'.vals = Top.vals
              /\ Top'.properties.pos \in {Top.properties.pos, Top.properties.pos + 1}
              /\ last'.ret = "present" =>
                     /\ Top'.properties.pos = Top.properties.pos + 1
                     /\ slot'.kind = "MapKey"]_vars
    /\ [][\A i \in Kept : stack'[i].vals # stack[i].vals =>
              /\ last'.op = "next_value_seed"
              /\ last'.ret = "present"
              /\ i = Len(stack)]_vars
    /\ [][InVisit("map") /\ Top.keyed /\ last'.op = "visit_return" =>
              /\ status' \in {"ok", "visit"}
              /\ \A i \in Kept : stack'[i].vals = stack[i].vals]_vars

\* The visitor took the key of {1337: 42} and returned: no value was read.
C11_Witness ==
    /\ status = "ok"
    /\ decodes = 1
    /\ roots[1] = ValueSlot(VObj1337)
    /\ last.op = "visit_return"
    /\ slot = MapKeySlot(K1337)
    /\ result.t = "map"
    /\ result.items = << >>

EntryOps ==
    {"deserialize_any", "deserialize_option", "deserialize_newtype_struct",
     "deserialize_enum"}

\* C12: deserialize_option on a dynamic value answers none exactly when the
\* value is null or undefined, with no notification of the general
\* classification; otherwise it answers some, leaves the slot as it is, and
\* the entry point the visitor calls next runs on the very same slot.
C12_OptionPresence ==
    /\ [](last.op = "deserialize_option" /\ last.arg.kind = "Value" =>
              /\ last.note.t \in {"none", "some"}
              /\ last.note.t = "none" <=> last.arg.v \in {VNull, VUndefined}
              /\ last.note.t = "none" <=> "nullish" \in ClassesOf(last.arg)
              /\ last.err = ""
              /\ slot = last.arg
              /\ last.note.t = "some" => status = "call"
              /\ last.note.t = "none" => status \in {"ok", "visit"})
    /\ [][last.op = "deserialize_option" /\ last.note.t = "some"
            /\ last'.op \in EntryOps =>
              /\ last'.arg = last.arg
              /\ slot' = slot]_vars

\* The value 42 of an entry was answered as present; the inner decode is next.
C12_Witness ==
    /\ last.op = "deserialize_option"
    /\ last.note.t = "some"
    /\ status = "call"
    /\ stack # << >>
    /\ Top.pend = "value"
    /\ slot = ValueSlot(6)

\* C13: a sequence cursor always has 0 <= index <= length; length is the
\* array's length read when the cursor was created and no step changes it
\* (nor the captured handle); index grows only by one, and only in a
\* successful element fetch of that cursor; a later change of the array's
\* length changes no cursor.
C13_IndexWithinCapturedLength ==
    /\ [](\A f \in Frames : f.kind = "seq" => 0 <= f.index /\ f.index <= f.length)
    /\ [][Len(stack') = Len(stack) + 1 /\ Top'.kind = "seq" =>
              /\ Top'.length = lens[Top'.seq]
              /\ Top'.index = 0
              /\ Top'.seq = slot.v]_vars
    /\ [][\A i \in Kept : stack[i].kind = "seq" =>
              /\ stack'[i].kind = "seq"
              /\ stack'[i].length = stack[i].length
              /\ stack'[i].seq = stack[i].seq
              /\ stack'[i].index \in {stack[i].index, stack[i].index + 1}
              /\ stack'[i].index # stack[i].index =>
                     /\ i = Len(stack)
                     /\ last'.op = "next_element_seed"
                     /\ last'.ret = "present"
                     /\ slot' = ValueSlot(get_indexed_property(stack[i].seq, stack[i].index))]_vars
    /\ [][lens' # lens => stack' = stack /\ slot' = slot]_vars

\* The array of length 3 was cut to length 1 during the decode; its cursor
\* still ran to index 3.
C13_Witness ==
    /\ status = "visit"
    /\ Top.kind = "seq"
    /\ Top.seq = VArray3
    /\ lens[VArray3] = 1
    /\ Top.length = 3
    /\ Top.index = 3
    /\ Top.exhausted

\* C14: a step of a sequence cursor whose index equals its length answers
\* 'exhausted' and changes nothing: index, length, the captured handle, the
\* slot, the collected elements and the enclosing cursors stay as they are
\* and no element is read; an exhausted cursor stays exhausted.
C14_ExhaustedStepChangesNothing ==
    /\ [][InVisit("seq") /\ Top.index = Top.length
            /\ last'.op = "next_element_seed" /\ lens' = lens =>
              /\ last'.ret = "exhausted"
              /\ last'.err = ""
              /\ last'.note = NoNote
              /\ stack' = SetTop([Top EXCEPT !.exhausted = TRUE])
              /\ UNCHANGED <<slot, status, result, wraps, decodes>>]_vars
    /\ [][\A i \in Kept : stack[i].exhausted =>
              /\ stack'[i].exhausted
              /\ stack'[i].index = stack[i].index
              /\ stack'[i].fetched = stack[i].fetched]_vars
    /\ [](\A f \in Frames : f.kind = "seq" /\ f.exhausted => f.index = f.length)

\* The cursor of an empty array nested in an array answered 'exhausted'.
C14_Witness ==
    /\ status = "visit"
    /\ Len(stack) = 2
    /\ Top.kind = "seq"
    /\ Top.seq = VEmptyArray
    /\ Top.exhausted
    /\ Top.fetched = << >>
    /\ last.op = "next_element_seed"
    /\ last.ret = "exhausted"

StepOps == {"next_key_seed", "next_value_seed", "next_element_seed"}

\* C15: the slot holds exactly one of a dynamic value and an extracted map
\* key, and whenever a seed called by a cursor step is about to enter the
\* classifier the slot is what that step stored: the normalized key just
\* enumerated (key step), the value of that entry (value step), the element
\* at the index just read (element step); so deserialize_any sees a map key
\* in a key step and only there.
C15_SlotSetByTheStep ==
    /\ [](/\ slot.kind \in {"Value", "MapKey"}
          /\ slot.kind = "Value" => slot.v \in Values /\ slot.key = NoChars
          /\ slot.kind = "MapKey" => slot.v = 0
          /\ status = "call" /\ stack # << >> =>
                LET f == Top
                    n == Len(f.keys)
                IN  /\ f.pend \in {"key", "value", "elem"}
                    /\ f.pend = "key" =>
                           /\ f.kind = "map"
                           /\ slot = MapKeySlot(sanitize_key(f.keys[n]))
                    /\ f.pend = "value" =>
                           /\ f.kind = "map"
                           /\ slot = ValueSlot(Lookup(f.seq, f.keys[n]))
                    /\ f.pend = "elem" =>
                           /\ f.kind = "seq"
                           /\ slot = ValueSlot(get_indexed_property(f.seq, f.index - 1)))
    /\ [][status = "visit" /\ status' = "call" =>
              /\ last'.op \in StepOps
              /\ last'.arg = slot
              /\ last'.ret = "present"
              /\ Top'.pend # "none"]_vars
    /\ [][status = "call" /\ stack # << >> /\ last'.op = "deserialize_any" =>
              (last'.arg.kind = "MapKey" <=> Top.pend = "key")]_vars

\* A value step has replaced the key left by the key step before it.
C15_Witness ==
    /\ status = "call"
    /\ stack # << >>
    /\ Top.pend = "value"
    /\ last.op = "next_value_seed"
    /\ last.arg = MapKeySlot(KFooBarSnake)
    /\ slot = ValueSlot(3)

Done == {"ok", "err", "panic"}

\* C16: when every visitor drives its cursor until a step reports
\* "exhausted", the decode terminates: the outermost call returns; a sequence
\* cursor is left at index = length after exactly length successful steps, at
\* indices 0 .. length-1, and a mapping cursor is left when its enumerator has
\* yielded every key of the object.
C16_DrivenDecodeTerminates ==
    /\ <>(status \in Done)
    /\ [][Len(stack') < Len(stack) =>
              LET f == Top
              IN  /\ f.exhausted
                  /\ f.kind = "seq" =>
                         /\ f.index = f.length
                         /\ f.fetched = Upto(f.length)
                         /\ Len(f.acc) = f.length
                  /\ f.kind = "map" =>
                         /\ ~HasNextKey(f.properties)
                         /\ Len(f.keys) = Len(Heap[f.seq].props)]_vars
    /\ [](status = "visit" /\ stack # << >> /\ Top.kind = "seq" /\ ~Top.exhausted
              => Len(Top.acc) = Top.index)

\* The array of containers [[1,2,3], {1337: 42}, []] decoded to the end.
C16_Witness ==
    /\ status = "ok"
    /\ decodes = 1
    /\ roots[1] = ValueSlot(23)
    /\ last.op = "visit_return"
    /\ result.t = "seq"
    /\ Len(result.items) = 3
    /\ Len(result.items[1].items) = 3

\* The fields of a cursor (lines 142-145 and 172-177) and what it has read.
Cursor(f) == <<f.kind, f.seq, f.length, f.index, f.properties, f.fetched, f.keys, f.vals>>

\* C17: a decode nested in an element or value step leaves the enclosing
\* cursors as they are: while a seed decodes (an entry point runs, a nested
\* cursor is created, driven and left) every cursor already on the stack
\* keeps its handle, length, index and enumerator position, although the
\* slot changes; the enclosing cursor then goes on with its own next element.
C17_EnclosingCursorUndisturbed ==
    /\ [][status = "call" =>
              \A i \in 1..Len(stack) :
                  /\ i <= Len(stack')
                  /\ Cursor(stack'[i]) = Cursor(stack[i])]_vars
    /\ [][\A i \in Kept : i < Len(stack) =>
              /\ Cursor(stack'[i]) = Cursor(stack[i])
              /\ i < Len(stack') => stack'[i] = stack[i]]_vars
    /\ [][Len(stack') > Len(stack) =>
              /\ Len(stack') = Len(stack) + 1
              /\ SubSeq(stack', 1, Len(stack)) = stack
              /\ slot' = slot]_vars
    /\ [][/\ InVisit("seq")
          /\ Top.acc # << >>
          /\ Top.acc[Len(Top.acc)].t \in {"seq", "map"}
          /\ last'.op = "next_element_seed"
          /\ last'.ret = "present"
          => /\ slot' = ValueSlot(get_indexed_property(Top.seq, Len(Top.acc)))
             /\ Top'.index = Len(Top.acc) + 1
             /\ Top'.length = Top.length]_vars

\* [[1,2,3], {1337: 42}, []]: the inner array was decoded, which left its
\* last element in the slot, and the outer cursor presents its element 1.
C17_Witness ==
    /\ status = "call"
    /\ Len(stack) = 1
    /\ Top.seq = 23
    /\ Top.index = 2
    /\ Len(Top.acc) = 1
    /\ Len(Top.acc[1].items) = 3
    /\ last.op = "next_element_seed"
    /\ last.arg = ValueSlot(3)
    /\ slot = ValueSlot(VObj1337)

\* C18: deserialize_option never runs while the slot holds an extracted
\* map key, so its unreachable!() branch (line 104) is never executed.
\* This does not hold: a key seed of an optional type
\* (Option<K>::deserialize calls deserialize_option) is handed the adapter
\* by next_key_seed right after the slot was set to MapKey (lines 156-157).
C18_UnreachableNeverReached ==
    ~(/\ last.op = "deserialize_option"
      /\ last.arg.kind = "MapKey"
      /\ last.err = "unreachable"
      /\ status = "panic")

\* The elements of an array / the values of the entries of an object.
Children(v) ==
    IF is_array(v) THEN Heap[v].elems
    ELSE [i \in 1..Len(Heap[v].props) |-> Heap[v].props[i].v]

\* The result r holds every element or entry of the value v, at every depth.
RECURSIVE Full(_, _)
Full(v, r) ==
    IF Children(v) = << >>
    THEN r.items = << >>
    ELSE /\ r.t = IF is_array(v) THEN "seq" ELSE "map"
         /\ Len(r.items) = Len(Children(v))
         /\ \A i \in 1..Len(r.items) :
                Full(Children(v)[i],
                     IF is_array(v) THEN r.items[i] ELSE r.items[i].v)

\* The last child visited by a complete decode of v: the last element or the
\* value of the last entry, or what its own decode visited last.
RECURSIVE LastChild(_)
LastChild(v) ==
    IF Children(v) = << >> THEN v
    ELSE LastChild(Children(v)[Len(Children(v))])

\* C19: deserialize_any, deserialize_option and deserialize_newtype_struct
\* never write the slot: only a key, value or element step that presents
\* something does. So after the first decode of a scalar or of an empty
\* container the slot still holds the value the adapter was built from;
\* after the complete decode of a non-empty container it holds the last
\* child visited; and a second decode on the same adapter starts from
\* whatever the slot holds then.
C19_OnlyStepsWriteTheSlot ==
    /\ [][slot' # slot =>
              /\ last'.op \in StepOps
              /\ last'.ret = "present"]_vars
    /\ [][CanCall /\ last'.op \in EntryOps => slot' = slot /\ last'.arg = slot]_vars
    /\ [](decodes = 1 /\ Children(roots[1].v) = << >> => slot = roots[1])
    /\ [](/\ decodes = 1
          /\ status = "ok"
          /\ muts = 0
          /\ Children(roots[1].v) # << >>
          /\ Full(roots[1].v, result)
          => /\ slot = ValueSlot(LastChild(roots[1].v))
             /\ slot # roots[1])
    /\ [][Recall /\ decodes' = decodes + 1 =>
              /\ roots' = Append(roots, slot)
              /\ last'.arg = slot
              /\ slot' = slot]_vars
    /\ [](/\ decodes = 2
          /\ status = "ok"
          /\ stack = << >>
          /\ roots[2].kind = "Value"
          /\ is_repr_as_i32(roots[2].v)
          => result.t = "i32" /\ result.n = as_i32(roots[2].v))

\* [1, 2, 3] was decoded completely; the second decode on the same adapter
\* decoded its last element, 3.
C19_Witness ==
    /\ decodes = 2
    /\ roots = <<ValueSlot(VArray3), ValueSlot(3)>>
    /\ status = "ok"
    /\ result.t = "i32"
    /\ result.n = 3
    /\ slot = ValueSlot(3)

\* C20: a mapping cursor presents one key per key the enumerator yields,
\* whether or not its normalized form was presented before: a key step that
\* finds a key and does not fail presents it and advances by one; the cursor
\* answers 'exhausted' only after as many key steps as the object has keys;
\* every collected pair carries the normalized form of its own raw key and
\* the value of that raw key, in enumeration order. For
\* {fooBar: 3, foo_bar: 1} both pairs arrive under the key "foo_bar".
C20_OnePairPerEnumeratedKey ==
    /\ [][/\ InVisit("map")
          /\ HasNextKey(Top.properties)
          /\ last'.op = "next_key_seed"
          /\ last'.err = ""
          => /\ last'.ret = "present"
             /\ slot' = MapKeySlot(sanitize_key(next_key(Top.properties)))
             /\ Top'.properties.pos = Top.properties.pos + 1
             /\ Len(Top'.keys) = Len(Top.keys) + 1]_vars
    /\ [](\A f \in Frames : f.kind = "map" =>
              LET ps == Heap[f.seq].props
              IN  /\ Len(f.keys) = f.properties.pos
                  /\ f.exhausted => Len(f.keys) = Len(ps)
                  /\ Len(f.acc) <= Len(f.keys)
                  /\ \A i \in 1..Len(f.acc) :
                         /\ f.acc[i].k = sanitize_key(f.acc[i].raw)
                         /\ DecodingOf(Lookup(f.seq, f.acc[i].raw), f.acc[i].v)
                  /\ \A i, j \in 1..Len(f.acc) :
                         i < j => Pos(f.seq, f.acc[i].raw) < Pos(f.seq, f.acc[j].raw)
                  /\ f.seq = 22 /\ Len(f.acc) = 2 =>
                         /\ f.acc[1].k = f.acc[2].k
                         /\ f.acc[1].v.n = 3
                         /\ f.acc[2].v.n = 1)

\* {fooBar: 3, foo_bar: 1} decoded to the end: two pairs, one key string.
C20_Witness ==
    /\ status = "ok"
    /\ roots[1] = ValueSlot(22)
    /\ result.t = "map"
    /\ Len(result.items) = 2
    /\ result.items[1].raw = KFooBar
    /\ result.items[2].raw = KFooBarSnake
    /\ result.items[1].k = KFooBarSnake
    /\ result.items[2].k = KFooBarSnake
    /\ result.items[1].v.n = 3
    /\ result.items[2].v.n = 1

====
